---------------------------- MODULE Spec2Model ----------------------------
(***************************************************************************)
(* Resampling and pivot-level engine of the stock-market-analysis backend  *)
(* (app/utils/technical_analysis.py) and the two endpoints that drive it   *)
(* (app/api/endpoints/analysis.py, app/api/endpoints/visualization.py).    *)
(*                                                                         *)
(* Conventions of the model                                                *)
(*  - a float is an exact rational <<n, d>> (d > 0, lowest terms); +inf    *)
(*    and -inf are <<1, 0>> and <<-1, 0>>; NaN and pd.NA are the empty     *)
(*    tuple <<>>; None is <<"None">>.  Rounding error and overflow of      *)
(*    IEEE doubles are abstracted away.                                    *)
(*  - a Python string is a tuple: <<"LT">> for a symbol, a tuple of        *)
(*    characters where the code looks into the string.                     *)
(*  - a timestamp is a day number (days since 1970-01-01, the pandas       *)
(*    epoch); the bar source formats every date as '%Y-%m-%d', so all      *)
(*    timestamps are midnights.                                            *)
(*  - a DataFrame is a sequence of rows; `layout` says how it carries its  *)
(*    timestamps: as its index (the field Date is the index label) or as   *)
(*    a column Date under a RangeIndex, or not at all.                     *)
(*  - the login and refresh-token endpoints (app/api/endpoints/auth.py)    *)
(*    and the cache (app/core/cache.py) read the clock `now`, in seconds.  *)
(***************************************************************************)
EXTENDS Integers, Sequences, FiniteSets, TLC

VARIABLES df, period, dfw, T, pc, response, layout, exc, keys, last_close, levels_arg, interpretation, now, users, refresh_tokens, requests, login, ttl, cache, timestamps, got, set_log

vars == <<df, period, dfw, T, pc, response, layout, exc, keys, last_close, levels_arg, interpretation, now, users, refresh_tokens, requests, login, ttl, cache, timestamps, got, set_log>>

---------------------------------------------------------------------------
(* Bounds of the model *)

\* longest bar series the bar source delivers in SpecResample / SpecEndpoint
MaxBars == 2
\* longest bar series handed to the level calculator in SpecLevels
MaxLevelBars == 3
\* number of calendar days the dates of SpecResample are drawn from
WindowDays == 5
\* the years whose Jan-01..Jan-07 SpecWeekly resamples
FirstYear == 2018
LastYear == 2026
\* longest frame a caller hands to data_resampling in SpecFrames
MaxFrameBars == 2
\* longest series a caller hands to calculate_levels in SpecLevelCalls
MaxRawBars == 2
\* longest symbol made of the characters of Alphabet in SpecKeys
MaxSymbolLen == 3
\* the highest closing price passed to get_closing_interpretation
MaxClose == 12
\* the clock runs from 0 to MaxTime seconds
MaxTime == 2
\* registered users, logins that may issue a token, refresh-token requests
MaxUsers == 1
MaxLogins == 1
MaxRequests == 2
\* the setting security.refresh_token_expire_secs, in seconds of the clock
RefreshTokenLife == 1
\* the longest time to live of a cache, and the calls of get on one cache
MaxTtl == 2
MaxGets == 3

---------------------------------------------------------------------------
(* Floats *)

NaN == <<>>
None == <<"None">>
Inf == <<1, 0>>
NegInf == <<0 - 1, 0>>

Abs(n) == IF n < 0 THEN 0 - n ELSE n

RECURSIVE GCD(_, _)
GCD(a, b) == IF b = 0 THEN a ELSE GCD(b, a % b)

\* n / d for d >= 0: x / 0 is an infinity of the sign of x, and 0 / 0 is NaN
Norm(n, d) ==
    LET g == GCD(Abs(n), d)
    IN  IF g = 0 THEN NaN ELSE <<n \div g, d \div g>>

F(n) == <<n, 1>>
Frac(n, d) == Norm(n, d)

\* pd.isna / pd.isnull: NaN, pd.NA and None
isna(v) == v = NaN \/ v = None

\* IEEE arithmetic: NaN propagates, inf - inf and 0 * inf are NaN
RNeg(a) == IF a = NaN THEN NaN ELSE <<0 - a[1], a[2]>>
RAdd(a, b) ==
    IF a = NaN \/ b = NaN THEN NaN
    ELSE IF a[2] = 0 /\ b[2] = 0 THEN (IF a = b THEN a ELSE NaN)
    ELSE Norm(a[1] * b[2] + b[1] * a[2], a[2] * b[2])
RSub(a, b) == RAdd(a, RNeg(b))
RMul(a, b) == IF a = NaN \/ b = NaN THEN NaN ELSE Norm(a[1] * b[1], a[2] * b[2])
\* a / b for b > 0 (the only divisions the code reaches are by a literal or by L > 0)
RDiv(a, b) == IF a = NaN \/ b = NaN THEN NaN ELSE Norm(a[1] * b[2], a[2] * b[1])
RLe(a, b) == a[1] * b[2] <= b[1] * a[2]
RLt(a, b) == a[1] * b[2] < b[1] * a[2]
RPos(a) == a[1] > 0

---------------------------------------------------------------------------
(* Calendar: the proleptic Gregorian calendar pandas timestamps use *)

days_from_civil(y, m, d) ==
    LET yy  == IF m <= 2 THEN y - 1 ELSE y
        era == yy \div 400
        yoe == yy - era * 400
        mp  == IF m > 2 THEN m - 3 ELSE m + 9
        doy == (153 * mp + 2) \div 5 + d - 1
        doe == yoe * 365 + yoe \div 4 - yoe \div 100 + doy
    IN  era * 146097 + doe - 719468

civil_from_days(z) ==
    LET zz  == z + 719468
        era == zz \div 146097
        doe == zz - era * 146097
        yoe == (doe - doe \div 1460 + doe \div 36524 - doe \div 146096) \div 365
        doy == doe - (365 * yoe + yoe \div 4 - yoe \div 100)
        mp  == (5 * doy + 2) \div 153
        d   == doy - (153 * mp + 2) \div 5 + 1
        m   == IF mp < 10 THEN mp + 3 ELSE mp - 9
        y   == yoe + era * 400 + (IF m <= 2 THEN 1 ELSE 0)
    IN  [y |-> y, m |-> m, d |-> d]

\* Monday = 0 .. Sunday = 6 (1970-01-01 was a Thursday)
Weekday(z) == (z + 3) % 7

FirstOfNextMonth(y, m) ==
    IF m = 12 THEN days_from_civil(y + 1, 1, 1) ELSE days_from_civil(y, m + 1, 1)

\* last month of the quarter of month m (quarters end in March, June, September, December)
QuarterEndMonth(m) == 3 * ((m + 2) \div 3)

ValidPeriods == {"D", "W", "M", "Q", "Y"}

\* The first period end on or after day z: the offsets behind the period codes
\* are Day, Week(weekday=SUN), MonthEnd, QuarterEnd(DEC) and YearEnd(DEC).
PeriodEnd(z, p) ==
    LET c == civil_from_days(z)
    IN  CASE p = "D" -> z
          [] p = "W" -> z + (6 - Weekday(z))
          [] p = "M" -> FirstOfNextMonth(c.y, c.m) - 1
          [] p = "Q" -> FirstOfNextMonth(c.y, QuarterEndMonth(c.m)) - 1
          [] p = "Y" -> days_from_civil(c.y, 12, 31)

\* The last period end strictly before the period end e.
PrevEnd(e, p) ==
    LET c == civil_from_days(e)
    IN  CASE p = "D" -> e - 1
          [] p = "W" -> e - 7
          [] p = "M" -> days_from_civil(c.y, c.m, 1) - 1
          [] p = "Q" -> days_from_civil(c.y, c.m - 2, 1) - 1
          [] p = "Y" -> days_from_civil(c.y, 1, 1) - 1

NextEnd(e, p) == PeriodEnd(e + 1, p)

---------------------------------------------------------------------------
(* Tables *)

Sym(s) == <<s>>

Range(s) == {s[i] : i \in 1..Len(s)}

Column(rows, c) == [i \in 1..Len(rows) |-> rows[i][c]]

Bar(date, o, h, l, c, sym) ==
    [Date |-> date, Open |-> o, High |-> h, Low |-> l, Close |-> c, Symbol |-> sym]

\* DataFrame.sort_index(kind = 'mergesort') as the time grouper applies it: stable
RECURSIVE InsertByDate(_, _)
InsertByDate(sorted, r) ==
    IF sorted = <<>> THEN <<r>>
    ELSE LET n == Len(sorted)
         IN  IF sorted[n].Date <= r.Date
             THEN Append(sorted, r)
             ELSE Append(InsertByDate(SubSeq(sorted, 1, n - 1), r), sorted[n])

RECURSIVE sort_index(_)
sort_index(rows) ==
    IF rows = <<>> THEN <<>>
    ELSE InsertByDate(sort_index(SubSeq(rows, 1, Len(rows) - 1)), rows[Len(rows)])

\* the aggregations of `logic`; each skips missing values, as pandas does
dropna(col) == SelectSeq(col, LAMBDA v : ~isna(v))

agg_first(col) == LET s == dropna(col) IN IF s = <<>> THEN NaN ELSE s[1]

agg_last(col) == LET s == dropna(col) IN IF s = <<>> THEN NaN ELSE s[Len(s)]

agg_max(col) ==
    LET s == Range(dropna(col))
    IN  IF s = {} THEN NaN ELSE CHOOSE v \in s : \A w \in s : RLe(w, v)

agg_min(col) ==
    LET s == Range(dropna(col))
    IN  IF s = {} THEN NaN ELSE CHOOSE v \in s : \A w \in s : RLe(v, w)

\* (mutant) 'Open': 'last'
logicOpenLast(label, rows) ==
    [Date   |-> label,
     Open   |-> agg_last(Column(rows, "Open")),
     High   |-> agg_max(Column(rows, "High")),
     Low    |-> agg_min(Column(rows, "Low")),
     Close  |-> agg_last(Column(rows, "Close")),
     Symbol |-> agg_first(Column(rows, "Symbol"))]

\* lines 27-33: the aggregation applied to the bars of one bin
logic(label, rows) ==
    [Date   |-> label,
     Open   |-> agg_first(Column(rows, "Open")),
     High   |-> agg_max(Column(rows, "High")),
     Low    |-> agg_min(Column(rows, "Low")),
     Close  |-> agg_last(Column(rows, "Close")),
     Symbol |-> agg_first(Column(rows, "Symbol"))]

---------------------------------------------------------------------------
(* data_resampling *)

\* (mutant) closed = 'left'
ResampleClosedLeft == "left"

\* the keyword arguments of df.resample(period, closed='right', label='right')
ResampleClosed == "right"
ResampleLabel == "right"

\* the end of the bin a timestamp falls into: bins are (e_k, e_k+1] when closed
\* on the right and [e_k, e_k+1) when closed on the left
BucketEnd(z, p, closed) ==
    IF closed = "right" THEN PeriodEnd(z, p) ELSE PeriodEnd(z + 1, p)

\* the label of the bin that ends at e
BucketLabel(e, p, label) == IF label = "right" THEN e ELSE PrevEnd(e, p)

RECURSIVE EndsFrom(_, _, _)
EndsFrom(e, hi, p) == IF e > hi THEN <<>> ELSE <<e>> \o EndsFrom(NextEnd(e, p), hi, p)

MinDate(rows) == CHOOSE z \in Range(Column(rows, "Date")) :
                    \A w \in Range(Column(rows, "Date")) : z <= w
MaxDate(rows) == CHOOSE z \in Range(Column(rows, "Date")) :
                    \A w \in Range(Column(rows, "Date")) : w <= z

\* (mutant) one bin per bar instead of one bin per period: bars that share a
\* period are not grouped and the bins follow the input order
BinEndsPerBar(rows, p, closed) ==
    [i \in 1..Len(rows) |-> BucketEnd(rows[i].Date, p, closed)]

\* the bin ends of the resampler: every period end from the bin of the earliest
\* timestamp to the bin of the latest one, whether or not a bar falls into it
BinEnds(rows, p, closed) ==
    EndsFrom(BucketEnd(MinDate(rows), p, closed), BucketEnd(MaxDate(rows), p, closed), p)

BucketRows(rows, e, p, closed) == SelectSeq(rows, LAMBDA r : BucketEnd(r.Date, p, closed) = e)

\* (mutant) one bin for whatever the frame holds, even nothing
resampleOneBin(rows, p, closed, label) == <<logic(0, rows)>>

resample(rows, p, closed, label) ==
    IF rows = <<>> THEN <<>>
    ELSE LET s    == sort_index(rows)
             ends == BinEnds(s, p, closed)
         IN  [k \in 1..Len(ends) |->
                 logic(BucketLabel(ends[k], p, label), BucketRows(s, ends[k], p, closed))]

data_resampling(rows, p) == resample(rows, p, ResampleClosed, ResampleLabel)

---------------------------------------------------------------------------
(* calculate_levels *)

levels == <<"PP", "S3", "S4", "S5", "S6", "R3", "R4", "R5", "R6">>

NoLevels == [l \in Range(levels) |-> NaN]

\* pd.to_numeric(errors = 'coerce'): a float stays, anything else becomes NaN
to_numeric(v) == IF Len(v) = 2 THEN v ELSE NaN

\* (mutant) nothing is filled
fillnaKeep(v, fill) == v

fillna(v, fill) == IF isna(v) THEN fill ELSE v

\* float(v or 0): None and 0 give 0.0 (no NaN is left after the fillna of line 62)
float_or_0(v) == IF isna(v) \/ v = F(0) THEN F(0) ELSE v

isinf(v) == Len(v) = 2 /\ v[2] = 0

\* (mutant) infinities stay
replace_infKeep(v) == v

\* line 135: T.replace([np.inf, -np.inf], np.nan)
replace_inf(v) == IF isinf(v) THEN NaN ELSE v

\* a row of T: the bar and its nine level columns
LevelRow(r, lv) ==
    [Date |-> r.Date, Open |-> r.Open, High |-> r.High, Low |-> r.Low,
     Close |-> r.Close, Symbol |-> r.Symbol,
     PP |-> lv.PP, S3 |-> lv.S3, S4 |-> lv.S4, S5 |-> lv.S5, S6 |-> lv.S6,
     R3 |-> lv.R3, R4 |-> lv.R4, R5 |-> lv.R5, R6 |-> lv.R6]

LevelsOf(r) == [l \in Range(levels) |-> r[l]]

\* lines 50-68: copy, add the level columns as NA, coerce and fill the columns
InitLevels(rows) ==
    [i \in 1..Len(rows) |->
        LevelRow([Date   |-> rows[i].Date,
                  Open   |-> fillna(to_numeric(rows[i].Open), F(0)),
                  High   |-> fillna(to_numeric(rows[i].High), F(0)),
                  Low    |-> fillna(to_numeric(rows[i].Low), F(0)),
                  Close  |-> fillna(to_numeric(rows[i].Close), F(0)),
                  Symbol |-> fillna(rows[i].Symbol, rows[1].Symbol)],
                 NoLevels)]

\* (mutant) the guard without its test of the close
HasValidDataNoClose(H, L, C) == RPos(H) /\ RPos(L)

\* the guard of lines 79 and 116, negated: H > 0 and L > 0 and C > 0
HasValidData(H, L, C) == RPos(H) /\ RPos(L) /\ RPos(C)

\* (mutant) R3 and S3 with the divisor of R4 and S4
ComputeLevelsHalfRange(H, L, C) ==
    LET RANGE == RSub(H, L)
        R3 == RAdd(C, RDiv(RMul(RANGE, Frac(11, 10)), F(2)))
        R4 == RAdd(C, RDiv(RMul(RANGE, Frac(11, 10)), F(2)))
        R6 == RMul(RDiv(H, L), C)
        S3 == RSub(C, RDiv(RMul(RANGE, Frac(11, 10)), F(2)))
        S4 == RSub(C, RDiv(RMul(RANGE, Frac(11, 10)), F(2)))
    IN  [R3 |-> R3, R4 |-> R4, R6 |-> R6,
         R5 |-> RAdd(R4, RMul(Frac(1168, 1000), RSub(R4, R3))),
         PP |-> RDiv(RAdd(RAdd(H, L), C), F(3)),
         S3 |-> S3, S4 |-> S4,
         S5 |-> RSub(S4, RMul(Frac(1168, 1000), RSub(S3, S4))),
         S6 |-> RSub(RMul(F(2), C), R6)]

\* (mutant) R6 from the ratio of low to high
ComputeLevelsLowOverHigh(H, L, C) ==
    LET RANGE == RSub(H, L)
        R3 == RAdd(C, RDiv(RMul(RANGE, Frac(11, 10)), F(4)))
        R4 == RAdd(C, RDiv(RMul(RANGE, Frac(11, 10)), F(2)))
        R6 == RMul(RDiv(L, H), C)
        S3 == RSub(C, RDiv(RMul(RANGE, Frac(11, 10)), F(4)))
        S4 == RSub(C, RDiv(RMul(RANGE, Frac(11, 10)), F(2)))
    IN  [R3 |-> R3, R4 |-> R4, R6 |-> R6,
         R5 |-> RAdd(R4, RMul(Frac(1168, 1000), RSub(R4, R3))),
         PP |-> RDiv(RAdd(RAdd(H, L), C), F(3)),
         S3 |-> S3, S4 |-> S4,
         S5 |-> RSub(S4, RMul(Frac(1168, 1000), RSub(S3, S4))),
         S6 |-> RSub(RMul(F(2), C), R6)]

\* lines 82-99 (and 117-132): the nine levels from one bar's H, L, C
ComputeLevels(H, L, C) ==
    LET RANGE == RSub(H, L)
        R3 == RAdd(C, RDiv(RMul(RANGE, Frac(11, 10)), F(4)))
        R4 == RAdd(C, RDiv(RMul(RANGE, Frac(11, 10)), F(2)))
        R6 == RMul(RDiv(H, L), C)
        S3 == RSub(C, RDiv(RMul(RANGE, Frac(11, 10)), F(4)))
        S4 == RSub(C, RDiv(RMul(RANGE, Frac(11, 10)), F(2)))
    IN  [R3 |-> R3, R4 |-> R4, R6 |-> R6,
         R5 |-> RAdd(R4, RMul(Frac(1168, 1000), RSub(R4, R3))),
         PP |-> RDiv(RAdd(RAdd(H, L), C), F(3)),
         S3 |-> S3, S4 |-> S4,
         S5 |-> RSub(S4, RMul(Frac(1168, 1000), RSub(S3, S4))),
         S6 |-> RSub(RMul(F(2), C), R6)]

\* (mutant) only the pivot is written
SetLevelsOnlyPP(t, idx, lv) ==
    [i \in 1..Len(t) |->
        IF t[i].Date = idx THEN LevelRow(t[i], [NoLevels EXCEPT !.PP = lv.PP]) ELSE t[i]]

\* T.loc[idx, level] = value, for the nine levels: every row labelled idx
SetLevels(t, idx, lv) ==
    [i \in 1..Len(t) |-> IF t[i].Date = idx THEN LevelRow(t[i], lv) ELSE t[i]]

\* (mutant) the levels are written to the row they were computed from
NextPosSame(x) == x

\* line 84: next_idx = T.index[x+1]
NextPos(x) == x + 1

\* (mutant) the loop reads the bar the levels are attached to
ReadPosOwn(x) == x + 1

\* lines 73-76: the loop reads T[col].iloc[x]
ReadPos(x) == x

\* one iteration of the loop of line 71 (x counts from 1)
LevelStep(t, x) ==
    LET C == float_or_0(t[ReadPos(x)].Close)
        L == float_or_0(t[ReadPos(x)].Low)
        H == float_or_0(t[ReadPos(x)].High)
    IN  IF ~HasValidData(H, L, C) THEN t
        ELSE SetLevels(t, t[NextPos(x)].Date, ComputeLevels(H, L, C))

RECURSIVE LevelLoop(_, _)
LevelLoop(t, x) == IF x > Len(t) - 1 THEN t ELSE LevelLoop(LevelStep(t, x), x + 1)

\* lines 104-132: "special handling for the last day"
LastDay(t) ==
    LET n == Len(t)
    IN  IF n > 1 /\ \A l \in Range(levels) : isna(t[n][l])
        THEN LET C == float_or_0(t[n - 1].Close)
                 L == float_or_0(t[n - 1].Low)
                 H == float_or_0(t[n - 1].High)
             IN  IF HasValidData(H, L, C)
                 THEN SetLevels(t, t[n].Date, ComputeLevels(H, L, C))
                 ELSE t
        ELSE t

\* line 140, T[col].where(pd.notnull(T[col]), None), on a column of dtype
\* object (the nine level columns, created from pd.NA): missing becomes None
where_notnull(v) == IF isna(v) THEN None ELSE v

\* lines 134-140: infinities become NaN in every column; NaN and pd.NA become
\* None in the level columns.  Open, High, Low and Close are float64 columns,
\* in which None is stored as NaN again.
Finish(t) ==
    [i \in 1..Len(t) |->
        [c \in DOMAIN t[i] |->
            IF c \in {"Symbol", "Date"} THEN t[i][c]
            ELSE IF c \in Range(levels) THEN where_notnull(replace_inf(t[i][c]))
            ELSE replace_inf(t[i][c])]]

calculate_levels(rows) == Finish(LastDay(LevelLoop(InitLevels(rows), 1)))

---------------------------------------------------------------------------
(* The endpoints.  A call either returns a value or raises an HTTPException *)

Return(v) == [raised |-> FALSE, status |-> 200, detail |-> "ok", value |-> v]
Raise(st, d) == [raised |-> TRUE, status |-> st, detail |-> d, value |-> <<>>]

\* try: body / except Exception as e: raise HTTPException(st, d).
\* HTTPException is itself an Exception, so the handler catches it too.
TryExcept(body, st, d) == IF body.raised THEN Raise(st, d) ELSE body

\* the periods a request may name: the five codes, "H" (known to the bar
\* source of stock_data.py only) and "X" (known to nothing)
RequestPeriods == ValidPeriods \cup {"H", "X"}

\* stock_data.py get_stock_data: dates_ok says that both dates parse as
\* DD-MM-YYYY, source_up that the bar source answers, rows is what it answers
get_stock_data(rows, dates_ok, source_up) ==
    IF ~dates_ok THEN Raise(400, "Invalid date format")
    ELSE TryExcept(
             LET fetched == IF source_up THEN Return(rows)
                            ELSE Raise(503, "Error fetching data")
             IN  IF fetched.raised THEN fetched
                 ELSE IF fetched.value = <<>> THEN Raise(404, "No data found")
                 ELSE Return(sort_index(fetched.value)),
             503, "An error occurred")

\* analysis.py get_technical_analysis; the value returned is <<resampled, analysis>>
technical_analysis(rows, dates_ok, source_up, p) ==
    TryExcept(
        LET stock_data == get_stock_data(rows, dates_ok, source_up)
        IN  IF stock_data.raised THEN stock_data
            ELSE IF stock_data.value = <<>> THEN Raise(404, "No data found")
            ELSE IF p \notin ValidPeriods THEN Raise(400, "Invalid period")
            ELSE LET resampled_data == data_resampling(stock_data.value, p)
                 IN  Return(<<resampled_data, calculate_levels(resampled_data)>>),
        503, "Analysis failed")

\* (mutant) the fallbacks compute from the last row itself
CalcRowLast(t) == t[Len(t)]

\* visualization.py lines 577-581 and 161-164: the row the fallbacks compute
\* from, "preferably from previous row, otherwise from current"
CalcRow(t) == IF Len(t) > 1 THEN t[Len(t) - 1] ELSE t[Len(t)]

\* visualization.py lines 567-629: "guaranteed level calculation for the last
\* trading day", which fills the levels of the last row that are missing or 0
GuaranteedLevels(t) ==
    LET n == Len(t)
        calc_row == CalcRow(t)
        O == float_or_0(calc_row.Open)
        H == float_or_0(calc_row.High)
        L == float_or_0(calc_row.Low)
        C == float_or_0(calc_row.Close)
    IN  IF n > 0 /\ RPos(O) /\ RPos(H) /\ RPos(L) /\ RPos(C)
        THEN LET level_values == ComputeLevels(H, L, C)
                 filled == [l \in Range(levels) |->
                               IF isna(t[n][l]) \/ t[n][l] = F(0)
                               THEN level_values[l] ELSE t[n][l]]
             IN  SetLevels(t, t[n].Date, filled)
        ELSE t

\* a level the plot code takes as missing: null or 0
MissingLevel(v) == isna(v) \/ v = F(0)

\* visualization.py create_plot lines 149-222: the levels of the last row that
\* are null or 0 are computed once more, written into the frame it was passed
\* (the endpoint's analysis_result).  The drawing itself is not modelled.
create_plot(t) ==
    LET n == Len(t)
        old == LevelsOf(t[n])
        missing_levels == {l \in Range(levels) : MissingLevel(old[l])}
        calc_row == CalcRow(t)
        H == float_or_0(calc_row.High)
        L == float_or_0(calc_row.Low)
        C == float_or_0(calc_row.Close)
        RANGE == RSub(H, L)
        \* df.loc[last_idx, l] after "if l in missing_levels: df.loc[last_idx, l] = v"
        Put(l, v) == IF l \in missing_levels THEN v ELSE old[l]
        \* not pd.isna(v) and v > 0
        UsableLevel(v) == ~isna(v) /\ RPos(v)
        R3 == Put("R3", RAdd(C, RDiv(RMul(RANGE, Frac(11, 10)), F(4))))
        R4 == Put("R4", RAdd(C, RDiv(RMul(RANGE, Frac(11, 10)), F(2))))
        R6 == Put("R6", RMul(RDiv(H, L), C))
        S3 == Put("S3", RSub(C, RDiv(RMul(RANGE, Frac(11, 10)), F(4))))
        S4 == Put("S4", RSub(C, RDiv(RMul(RANGE, Frac(11, 10)), F(2))))
        level_values ==
            [PP |-> Put("PP", RDiv(RAdd(RAdd(H, L), C), F(3))),
             R3 |-> R3, R4 |-> R4, R6 |-> R6, S3 |-> S3, S4 |-> S4,
             R5 |-> IF UsableLevel(R3) /\ UsableLevel(R4)
                    THEN Put("R5", RAdd(R4, RMul(Frac(1168, 1000), RSub(R4, R3))))
                    ELSE old.R5,
             S5 |-> IF UsableLevel(S3) /\ UsableLevel(S4)
                    THEN Put("S5", RSub(S4, RMul(Frac(1168, 1000), RSub(S3, S4))))
                    ELSE old.S5,
             S6 |-> IF UsableLevel(R6)
                    THEN Put("S6", RSub(RMul(F(2), C), R6))
                    ELSE old.S6]
    IN  IF n > 0 /\ missing_levels # {} /\ HasValidData(H, L, C)
        THEN SetLevels(t, t[n].Date, level_values)
        ELSE t

\* visualization.py get_technical_analysis_plot; the value returned is
\* <<resampled, analysis>>, the analysis as create_plot leaves it
technical_analysis_plot(rows, dates_ok, source_up, p) ==
    TryExcept(
        LET stock_data == get_stock_data(rows, dates_ok, source_up)
        IN  IF stock_data.raised THEN stock_data
            ELSE IF stock_data.value = <<>> THEN Raise(404, "No data found")
            ELSE IF p \notin ValidPeriods THEN Raise(400, "Invalid period")
            ELSE LET resampled_data == data_resampling(stock_data.value, p)
                 IN  IF Len(resampled_data) < 2 THEN Raise(400, "Not enough data points")
                     ELSE Return(<<resampled_data,
                                   create_plot(GuaranteedLevels(calculate_levels(resampled_data)))>>),
        503, "Plot generation failed")

---------------------------------------------------------------------------
(* visualization.py get_closing_interpretation.  The result is the heading *)
(* of the text returned; a level or a close is a number or None.           *)

\* lines 27-34: None counts as 0
none_as_0(v) == IF v = None THEN F(0) ELSE v

get_closing_interpretation(close, lv) ==
    LET c == none_as_0(close)
        l == [k \in DOMAIN lv |-> none_as_0(lv[k])]
        \* lines 46-47, both over last_close > 0
        r3_diff == RSub(l.R3, c)
        s3_diff == RSub(c, l.S3)
    IN  IF RLe(c, F(0)) THEN "Insufficient data for price interpretation"
        ELSE IF RPos(l.R3) /\ RPos(l.S3)
        THEN IF RLt(l.R3, c) THEN "BULLISH MOMENTUM"
             ELSE IF RLt(c, l.S3) THEN "BEARISH MOMENTUM"
             ELSE IF RLt(r3_diff, s3_diff) THEN "APPROACHING RESISTANCE"
             ELSE "NEAR SUPPORT"
        ELSE IF \A key \in {"S3", "S4", "R3", "R4"} : RPos(l[key])
        THEN IF RLt(c, l.S3) /\ RLt(l.S4, c) THEN "BULLISH SCENARIO 1"
             ELSE IF RLt(c, l.S4) /\ RPos(l.S6) /\ RLt(l.S6, c) THEN "BEARISH SCENARIO 1"
             ELSE IF RLt(l.R3, c) /\ RLt(c, l.R4) THEN "BEARISH SCENARIO 2"
             ELSE IF RLt(l.R4, c) /\ RPos(l.R6) /\ RLt(c, l.R6) THEN "BULLISH SCENARIO 2"
             ELSE IF RPos(l.PP)
             THEN IF RLt(l.PP, c) THEN "ABOVE PIVOT POINT" ELSE "BELOW PIVOT POINT"
             ELSE "Current price"
        ELSE IF RPos(l.PP)
        THEN IF RLt(l.PP, c) THEN "ABOVE PIVOT POINT" ELSE "BELOW PIVOT POINT"
        ELSE "Current price"

---------------------------------------------------------------------------
(* The bar source *)

Symbol == Sym("LT")

\* the two bars of the worked example, and a candle whose prices are all null
BarA(date) == Bar(date, F(10), F(12), F(8), F(11), Symbol)
BarB(date) == Bar(date, F(11), F(13), F(9), F(12), Symbol)
BarNull(date) == Bar(date, NaN, NaN, NaN, NaN, Symbol)

SampleBars(date) == {BarA(date), BarB(date), BarNull(date)}

\* the bars of SpecLevels: five bars with positive H, L, C (the two of the
\* worked example, one whose low lies above its high, one without an open, a
\* flat one) and seven bars that each break the guard of line 79 in one way
PositiveBars(date) ==
    {BarA(date), BarB(date),
     Bar(date, F(10), F(12), F(13), F(11), Symbol),
     Bar(date, NaN, F(12), F(8), F(14), Symbol),
     Bar(date, F(10), F(10), F(10), F(10), Symbol)}

DegenerateBars(date) ==
    {BarNull(date),
     Bar(date, F(10), F(12), F(0), F(11), Symbol),
     Bar(date, F(10), F(12), F(0 - 1), F(11), Symbol),
     Bar(date, F(10), NaN, F(8), F(11), Symbol),
     Bar(date, F(10), F(0), F(8), F(11), Symbol),
     Bar(date, F(10), F(12), F(8), F(0), Symbol),
     Bar(date, F(10), F(12), F(8), F(0 - 1), Symbol)}

LevelBars(date) == PositiveBars(date) \cup DegenerateBars(date)

\* candles of the plot pipeline: the first bar of the worked example, a bar
\* whose high is twice its low (S6 = 0 after it), the same bar without an
\* open, a bar without a close and a bar with an infinite low
Candles(date) ==
    {BarA(date),
     Bar(date, F(10), F(16), F(8), F(10), Symbol),
     Bar(date, NaN, F(16), F(8), F(10), Symbol),
     Bar(date, F(10), F(12), F(8), NaN, Symbol),
     Bar(date, F(10), F(12), Inf, F(11), Symbol)}

\* Saturday 2024-12-28 and the days after it: the window holds a week end
\* (Sunday 2024-12-29) and a month, quarter and year end (2024-12-31)
FirstDay == days_from_civil(2024, 12, 28)
Window == FirstDay..(FirstDay + WindowDays - 1)

---------------------------------------------------------------------------
(* A call of data_resampling: its exceptions and what it does to the frame *)
(* of its caller                                                            *)

\* a Python exception that leaves the function
Throw(e) == [raised |-> TRUE, status |-> 0, detail |-> e, value |-> <<>>]

\* how a frame carries its timestamps: as its index, as a column Date of
\* '%Y-%m-%d' strings (what the endpoints build from the bar source's records),
\* as a column Date of dtype datetime64, or not at all; the last three have a
\* RangeIndex
Layouts == {"DatetimeIndex", "DateStrings", "DateColumn", "NoDate"}

\* Timestamp.strftime('%Y-%m-%d'): the string, read as the number YYYYMMDD
strftime(z) == LET c == civil_from_days(z) IN c.y * 10000 + c.m * 100 + c.d

\* line 21: pd.to_datetime of such a string
to_datetime(s) == days_from_civil(s \div 10000, (s \div 100) % 100, s % 100)

\* the period arguments of the calls of this model: the five codes, two more
\* frequency strings of pandas ("1D" is one day, "W-SUN" the week ending on
\* Sunday) and a string that is no frequency of pandas
PeriodArgs == ValidPeriods \cup {"1D", "W-SUN", "X"}

\* line 36: df.resample(period) hands the string to pandas' to_offset, which
\* raises ValueError("Invalid frequency") for a string it does not know
to_offset(p) ==
    CASE p \in ValidPeriods -> p
      [] p = "1D" -> "D"
      [] p = "W-SUN" -> "W"
      [] OTHER -> "invalid"

\* lines 16-25: the frame with its timestamps as the index.  date_range(start =
\* 'today', periods = len(df)) is one timestamp a day from the moment of the call.
set_index(rows, lay, today) ==
    [i \in 1..Len(rows) |->
        [rows[i] EXCEPT !.Date =
            CASE lay = "DateStrings" -> to_datetime(@)
              [] lay = "NoDate" -> today + i - 1
              [] OTHER -> @]]

\* lines 21 and 25 assign to the frame of the caller (the Date column, the
\* index); line 22 binds a new frame to the local name
CallerRows(rows, lay, today) ==
    IF lay \in {"DateStrings", "NoDate"} THEN set_index(rows, lay, today) ELSE rows

CallerLayout(lay) ==
    CASE lay = "DateStrings" -> "DateColumn"
      [] lay = "NoDate" -> "DatetimeIndex"
      [] OTHER -> lay

\* The timestamps of date_range(start = 'today') carry the time of day of the
\* call.  Daily bins are (midnight, next midnight], so such a timestamp is in
\* the bin labelled with the next day; the bins of the other four offsets
\* hold the whole of their last day.
BinDay(z, lay, offset) == IF lay = "NoDate" /\ offset = "D" THEN z + 1 ELSE z

\* data_resampling(df, period) called at the moment `today` on a frame of
\* layout lay
call_data_resampling(rows, lay, p, today) ==
    LET offset == to_offset(p)
        frame  == set_index(rows, lay, today)
        binned == [i \in 1..Len(frame) |->
                      [frame[i] EXCEPT !.Date = BinDay(@, lay, offset)]]
    IN  IF offset = "invalid" THEN Throw("ValueError")
        ELSE Return(data_resampling(binned, offset))

---------------------------------------------------------------------------
(* A call of calculate_levels on a series as a caller may hold it *)

\* line 67 evaluates T['Symbol'].iloc[0] before anything is filled: on a
\* frame without rows (and with a Symbol column) that is an IndexError
call_calculate_levels(rows) ==
    IF rows = <<>> THEN Throw("IndexError") ELSE Return(calculate_levels(rows))

\* (mutant) the call takes the first bar off the frame of its caller
CallerRowsDropFirst(rows) == SubSeq(rows, 2, Len(rows))

\* line 50, T = df.copy(): every assignment of the function goes to the copy,
\* and the frame of the caller keeps its rows
CallerRowsAfterLevels(rows) == rows

\* a cell that holds text instead of a price
NotANumber == <<"n/a">>

\* bars as a caller may hold them: the two of the worked example, bars with
\* one price missing (NaN or None) or not numeric, and bars with an infinite price
MalformedBars(date) ==
    {Bar(date, NotANumber, F(12), F(8), F(11), Symbol),
     Bar(date, None, F(12), F(8), F(11), Symbol),
     Bar(date, F(10), NotANumber, F(8), F(11), Symbol),
     Bar(date, F(10), F(12), NaN, F(11), Symbol),
     Bar(date, F(10), F(12), F(8), NotANumber, Symbol),
     Bar(date, F(10), F(12), F(8), None, Symbol)}

InfiniteBars(date) ==
    {Bar(date, F(10), Inf, F(8), F(11), Symbol),
     Bar(date, F(10), F(12), Inf, F(11), Symbol),
     Bar(date, F(10), F(12), F(8), Inf, Symbol),
     Bar(date, NegInf, F(12), F(8), F(11), Symbol)}

RawBars(date) == {BarA(date), BarB(date)} \cup MalformedBars(date) \cup InfiniteBars(date)

---------------------------------------------------------------------------
(* stock_data.py get_upstox_instrument_key.  A symbol is the tuple of its  *)
(* characters.                                                              *)

\* lines 154-159
index_mapping ==
       (<<"N", "I", "F", "T", "Y", " ", "5", "0">>
        :> <<"N", "S", "E", "_", "I", "N", "D", "E", "X", "|", "N", "I", "F", "T", "Y", " ", "5", "0">>)
    @@ (<<"N", "I", "F", "T", "Y", " ", "B", "A", "N", "K">>
        :> <<"N", "S", "E", "_", "I", "N", "D", "E", "X", "|", "N", "I", "F", "T", "Y", " ", "B", "A", "N", "K">>)
    @@ (<<"N", "I", "F", "T", "Y">>
        :> <<"N", "S", "E", "_", "I", "N", "D", "E", "X", "|", "N", "I", "F", "T", "Y", " ", "5", "0">>)
    @@ (<<"B", "A", "N", "K", "N", "I", "F", "T", "Y">>
        :> <<"N", "S", "E", "_", "I", "N", "D", "E", "X", "|", "N", "I", "F", "T", "Y", " ", "B", "A", "N", "K">>)

\* lines 166-178
instrument_key_map ==
       (<<"R", "E", "L", "I", "A", "N", "C", "E">>
        :> <<"N", "S", "E", "_", "E", "Q", "|", "I", "N", "E", "0", "0", "2", "A", "0", "1", "0", "1", "8">>)
    @@ (<<"T", "C", "S">>
        :> <<"N", "S", "E", "_", "E", "Q", "|", "I", "N", "E", "4", "6", "7", "B", "0", "1", "0", "2", "9">>)
    @@ (<<"I", "N", "F", "Y">>
        :> <<"N", "S", "E", "_", "E", "Q", "|", "I", "N", "E", "0", "0", "9", "A", "0", "1", "0", "2", "1">>)
    @@ (<<"H", "D", "F", "C", "B", "A", "N", "K">>
        :> <<"N", "S", "E", "_", "E", "Q", "|", "I", "N", "E", "0", "4", "0", "A", "0", "1", "0", "3", "4">>)
    @@ (<<"I", "C", "I", "C", "I", "B", "A", "N", "K">>
        :> <<"N", "S", "E", "_", "E", "Q", "|", "I", "N", "E", "0", "9", "0", "A", "0", "1", "0", "2", "1">>)
    @@ (<<"H", "I", "N", "D", "U", "N", "I", "L", "V", "R">>
        :> <<"N", "S", "E", "_", "E", "Q", "|", "I", "N", "E", "0", "3", "0", "A", "0", "1", "0", "2", "7">>)
    @@ (<<"S", "B", "I", "N">>
        :> <<"N", "S", "E", "_", "E", "Q", "|", "I", "N", "E", "0", "6", "2", "A", "0", "1", "0", "2", "0">>)
    @@ (<<"B", "H", "A", "R", "T", "I", "A", "R", "T", "L">>
        :> <<"N", "S", "E", "_", "E", "Q", "|", "I", "N", "E", "3", "9", "7", "D", "0", "1", "0", "2", "4">>)
    @@ (<<"I", "T", "C">>
        :> <<"N", "S", "E", "_", "E", "Q", "|", "I", "N", "E", "1", "5", "4", "A", "0", "1", "0", "2", "5">>)
    @@ (<<"K", "O", "T", "A", "K", "B", "A", "N", "K">>
        :> <<"N", "S", "E", "_", "E", "Q", "|", "I", "N", "E", "2", "3", "7", "A", "0", "1", "0", "2", "8">>)
    @@ (<<"L", "T">>
        :> <<"N", "S", "E", "_", "E", "Q", "|", "I", "N", "E", "0", "1", "8", "A", "0", "1", "0", "3", "0">>)

\* (mutant) no symbol is taken to be a key already
has_pipeNever(symbol) == FALSE

\* line 185: '|' in symbol
has_pipe(symbol) == \E i \in DOMAIN symbol : symbol[i] = "|"

\* line 190: f"NSE_EQ|{symbol}"
default_key(symbol) == <<"N", "S", "E", "_", "E", "Q", "|">> \o symbol

get_upstox_instrument_key(symbol) ==
    IF symbol \in DOMAIN index_mapping THEN index_mapping[symbol]
    ELSE IF symbol \in DOMAIN instrument_key_map THEN instrument_key_map[symbol]
    ELSE IF has_pipe(symbol) THEN symbol
    ELSE default_key(symbol)

\* the characters the symbols of a request are made of, besides the symbols
\* of the two mappings
Alphabet == {"L", "T", "X", "|"}

RECURSIVE Strings(_)
Strings(n) ==
    IF n = 0 THEN {<<>>}
    ELSE LET shorter == Strings(n - 1)
         IN  shorter \cup {Append(w, c) : w \in shorter, c \in Alphabet}

Symbols == Strings(MaxSymbolLen) \cup DOMAIN index_mapping \cup DOMAIN instrument_key_map

---------------------------------------------------------------------------
(* auth.py.  The database is PostgreSQL (config.py line 59): users is the  *)
(* table of User rows, refresh_tokens the table of RefreshToken rows in    *)
(* the order of their creation.  The value of a refresh token is the       *)
(* number of its row (secrets.token_urlsafe(32) never repeats).  A request *)
(* runs in a database session of its own; between two awaits it runs       *)
(* alone on the event loop.                                                *)

PASSWORD_INVALID == "Incorrect email or password"
REFRESH_TOKEN_NOT_FOUND == "Refresh token not found"
REFRESH_TOKEN_EXPIRED == "Refresh token expired"
REFRESH_TOKEN_ALREADY_USED == "Refresh token already used"
EMAIL_ADDRESS_ALREADY_USED == "Cannot use this email address"

\* the people who may register, each with the password they would choose,
\* and the passwords a login may try
Accounts == {[email |-> "a@x", password |-> "p"], [email |-> "b@x", password |-> "q"]}
Emails == {a.email : a \in Accounts}
Passwords == {a.password : a \in Accounts}

get_password_hash(password) == <<"hash", password>>
verify_password(password, hashed) == hashed = get_password_hash(password)

\* select(User).where(User.email == email): the rows found
UserRows(email) == {u \in users : u.email = email}

\* (mutant) an unknown email is answered in its own words
user_is_NoneReveals == Raise(404, "User not found")

\* lines 80-88: the answer to a login with an unknown email
user_is_None == Raise(400, PASSWORD_INVALID)

\* a RefreshToken row as lines 100-104 and 157-161 create it
NewRefreshToken(user_id) ==
    [user_id |-> user_id, used |-> FALSE, exp |-> now + RefreshTokenLife]

\* login_access_token up to its commit: the answer
login_result(username, password) ==
    IF UserRows(username) = {} THEN user_is_None
    ELSE LET user == CHOOSE u \in UserRows(username) : TRUE
         IN  IF ~verify_password(password, user.hashed_password)
             THEN Raise(400, PASSWORD_INVALID)
             ELSE Return(user.email)

\* a refresh-token request that has not been made
NoRequest ==
    [pc |-> "idle", presented |-> 0, locked |-> 0, status |-> 0, detail |-> "none"]

NoLogin == [username |-> "none", password |-> "none", status |-> 0, detail |-> "none"]

\* the rows on which a session other than r's holds a row lock
LockedByOthers(r) ==
    {requests[q].locked : q \in (DOMAIN requests) \ {r}} \ {0}

\* (mutant) the select takes rows that another session has locked
skip_lockedNever(r, row) == FALSE

\* with_for_update(skip_locked = True): a row locked by another session is
\* left out of the result
skip_locked(r, row) == row \in LockedByOthers(r)

\* lines 128-132: the row the select of request r finds for the value, 0 for None
SelectForUpdate(r, value) ==
    IF value \in DOMAIN refresh_tokens /\ ~skip_locked(r, value) THEN value ELSE 0

---------------------------------------------------------------------------
(* cache.py SimpleCache.  A dict is a function on its keys; time.time() is *)
(* the wall clock now, which may be set back.  set_log is the history of   *)
(* the calls: for each key the time and the value of its most recent set,  *)
(* and whether a get has found that entry expired since.                   *)

\* line 6: ttl: int = 300
DefaultTtl == 300

CacheKeys == {"plot_LT_D", "plot_LT_W"}
CacheValues == {<<"plot", 1>>, <<"plot", 2>>}

\* the empty dict
NoEntries == [k \in {} |-> 0]

\* d[key] = value
SetItem(d, key, value) ==
    [k \in (DOMAIN d) \cup {key} |-> IF k = key THEN value ELSE d[k]]

\* del d[key]
DelItem(d, key) == [k \in (DOMAIN d) \ {key} |-> d[k]]

NoGet == [n |-> 0, key |-> "none", value |-> None]
NeverSet == [at |-> 0 - 1, value |-> None, expired |-> FALSE]

\* (mutant) the test of line 13 with <=
within_ttlInclusive(stamp) == now - stamp <= ttl

\* line 13: time.time() - self.timestamps[key] < self.ttl
within_ttl(stamp) == now - stamp < ttl

\* (mutant) an expired entry loses its value only
expireValueOnly(key) ==
    /\ cache' = DelItem(cache, key)
    /\ timestamps' = timestamps

\* lines 16-17: del self.cache[key]; del self.timestamps[key]
expire(key) ==
    /\ cache' = DelItem(cache, key)
    /\ timestamps' = DelItem(timestamps, key)

---------------------------------------------------------------------------
(* Actions *)

\* no request has been answered yet
Idle == [endpoint |-> "none", dates_ok |-> TRUE, source_up |-> TRUE,
         status |-> 0, detail |-> "none"]

\* the state after start-up, with a cache constructed as SimpleCache(cache_ttl)
Constructed(cache_ttl) ==
    /\ df = <<>>
    /\ period = "D"
    /\ dfw = <<>>
    /\ T = <<>>
    /\ pc = "source"
    /\ response = Idle
    /\ layout = "DatetimeIndex"
    /\ exc = "none"
    /\ keys = <<>>
    /\ last_close = None
    /\ levels_arg = [l \in Range(levels) |-> None]
    /\ interpretation = "none"
    /\ now = 0
    /\ users = {}
    /\ refresh_tokens = <<>>
    /\ requests = [r \in 1..MaxRequests |-> NoRequest]
    /\ login = NoLogin
    /\ ttl = cache_ttl
    /\ cache = NoEntries
    /\ timestamps = NoEntries
    /\ got = NoGet
    /\ set_log = [k \in CacheKeys |-> NeverSet]

\* cache.py line 24: cache = SimpleCache()
Init == Constructed(DefaultTtl)

\* a cache of any time to live
InitCache == \E cache_ttl \in 1..MaxTtl : Constructed(cache_ttl)

\* the bar source delivers one more bar, dated anywhere in the window
SourceAny ==
    /\ pc = "source"
    /\ Len(df) < MaxBars
    /\ \E z \in Window : \E b \in SampleBars(z) : df' = Append(df, b)
    /\ UNCHANGED <<period, dfw, T, pc, response, layout, exc, keys, last_close, levels_arg, interpretation, now, users, refresh_tokens, requests, login, ttl, cache, timestamps, got, set_log>>

\* dfw = data_resampling(df, period)
Resample ==
    /\ pc = "source"
    /\ df # <<>>
    /\ \E p \in ValidPeriods :
          /\ period' = p
          /\ dfw' = data_resampling(df, p)
    /\ pc' = "resampled"
    /\ UNCHANGED <<df, T, response, layout, exc, keys, last_close, levels_arg, interpretation, now, users, refresh_tokens, requests, login, ttl, cache, timestamps, got, set_log>>

\* the bar source delivers the bar of the next calendar day
SourceDaily ==
    /\ pc = "source"
    /\ Len(df) < MaxLevelBars
    /\ LET z == IF df = <<>> THEN FirstDay ELSE df[Len(df)].Date + 1
       IN  \E b \in LevelBars(z) : df' = Append(df, b)
    /\ UNCHANGED <<period, dfw, T, pc, response, layout, exc, keys, last_close, levels_arg, interpretation, now, users, refresh_tokens, requests, login, ttl, cache, timestamps, got, set_log>>

\* analysis.py lines 61-67 for the default period:
\* resampled_data = data_resampling(df, period); calculate_levels(resampled_data)
Analyse ==
    /\ pc = "source"
    /\ df # <<>>
    /\ period' = "D"
    /\ dfw' = data_resampling(df, "D")
    /\ T' = calculate_levels(dfw')
    /\ pc' = "levels"
    /\ UNCHANGED <<df, response, layout, exc, keys, last_close, levels_arg, interpretation, now, users, refresh_tokens, requests, login, ttl, cache, timestamps, got, set_log>>

\* the bar source delivers the first seven days of a year, one bar a day
SourceJanWeek ==
    /\ pc = "source"
    /\ Len(df) < 7
    /\ \E z \in (IF df = <<>>
                 THEN {days_from_civil(y, 1, 1) : y \in FirstYear..LastYear}
                 ELSE {df[Len(df)].Date + 1}) :
          \E b \in {BarA(z), BarB(z)} : df' = Append(df, b)
    /\ UNCHANGED <<period, dfw, T, pc, response, layout, exc, keys, last_close, levels_arg, interpretation, now, users, refresh_tokens, requests, login, ttl, cache, timestamps, got, set_log>>

\* the bar source holds one more trading day: the next day, or the Monday
\* after a weekend
SourceTradingDays ==
    /\ pc = "source"
    /\ Len(df) < MaxBars
    /\ \E gap \in {1, 3} :
          LET z == IF df = <<>> THEN FirstDay - 1 ELSE df[Len(df)].Date + gap
          IN  \E b \in {BarA(z), BarB(z)} : df' = Append(df, b)
    /\ UNCHANGED <<period, dfw, T, pc, response, layout, exc, keys, last_close, levels_arg, interpretation, now, users, refresh_tokens, requests, login, ttl, cache, timestamps, got, set_log>>

\* the response FastAPI sends for the outcome of a handler
Respond(endpoint, dates_ok, source_up, result, p) ==
    /\ period' = p
    /\ response' = [endpoint |-> endpoint, dates_ok |-> dates_ok, source_up |-> source_up,
                    status |-> result.status, detail |-> result.detail]
    /\ dfw' = IF result.raised THEN <<>> ELSE result.value[1]
    /\ T' = IF result.raised THEN <<>> ELSE result.value[2]
    /\ pc' = "responded"
    /\ UNCHANGED <<df, layout, exc, keys, last_close, levels_arg, interpretation, now, users, refresh_tokens, requests, login, ttl, cache, timestamps, got, set_log>>

\* GET /technical/{symbol}
get_technical_analysis ==
    /\ pc = "source"
    /\ \E p \in RequestPeriods, dates_ok \in BOOLEAN, source_up \in BOOLEAN :
          Respond("technical", dates_ok, source_up,
                  technical_analysis(df, dates_ok, source_up, p), p)

\* GET /plot/{symbol}
get_technical_analysis_plot ==
    /\ pc = "source"
    /\ \E p \in RequestPeriods, dates_ok \in BOOLEAN, source_up \in BOOLEAN :
          Respond("plot", dates_ok, source_up,
                  technical_analysis_plot(df, dates_ok, source_up, p), p)

\* the caller holds a frame without rows, of any layout
EmptyFrame ==
    /\ pc = "source"
    /\ df = <<>>
    /\ \E lay \in Layouts : layout' = lay
    /\ UNCHANGED <<df, period, dfw, T, pc, response, exc, keys, last_close, levels_arg, interpretation, now, users, refresh_tokens, requests, login, ttl, cache, timestamps, got, set_log>>

\* the caller's frame gets one more bar, dated anywhere in the window; a
\* frame without dates has the positions 0, 1, ... as its index
SourceFrame ==
    /\ pc = "source"
    /\ Len(df) < MaxFrameBars
    /\ \E z \in Window : \E b \in {BarA(z), BarB(z)} :
          df' = Append(df, [b EXCEPT !.Date =
                               CASE layout = "DateStrings" -> strftime(z)
                                 [] layout = "NoDate" -> Len(df)
                                 [] OTHER -> z])
    /\ UNCHANGED <<period, dfw, T, pc, response, layout, exc, keys, last_close, levels_arg, interpretation, now, users, refresh_tokens, requests, login, ttl, cache, timestamps, got, set_log>>

\* dfw = data_resampling(df, p), called on some day of the window with any
\* period argument; df is the caller's frame, before and after the call
ResampleCall ==
    /\ pc = "source"
    /\ \E p \in PeriodArgs, today \in Window :
          LET r == call_data_resampling(df, layout, p, today)
          IN  /\ period' = p
              /\ dfw' = r.value
              /\ exc' = IF r.raised THEN r.detail ELSE "none"
              /\ pc' = IF r.raised THEN "raised" ELSE "resampled"
              /\ df' = CallerRows(df, layout, today)
              /\ layout' = CallerLayout(layout)
    /\ UNCHANGED <<T, response, keys, last_close, levels_arg, interpretation, now, users, refresh_tokens, requests, login, ttl, cache, timestamps, got, set_log>>

\* the caller's series gets the bar of the next calendar day
SourceRaw ==
    /\ pc = "source"
    /\ Len(df) < MaxRawBars
    /\ LET z == IF df = <<>> THEN FirstDay ELSE df[Len(df)].Date + 1
       IN  \E b \in RawBars(z) : df' = Append(df, b)
    /\ UNCHANGED <<period, dfw, T, pc, response, layout, exc, keys, last_close, levels_arg, interpretation, now, users, refresh_tokens, requests, login, ttl, cache, timestamps, got, set_log>>

\* T = calculate_levels(df); dfw keeps the series as it was passed
LevelsCall ==
    /\ pc = "source"
    /\ LET r == call_calculate_levels(df)
       IN  /\ T' = r.value
           /\ exc' = IF r.raised THEN r.detail ELSE "none"
           /\ pc' = IF r.raised THEN "raised" ELSE "levels"
    /\ dfw' = df
    /\ df' = CallerRowsAfterLevels(df)
    /\ UNCHANGED <<period, response, layout, keys, last_close, levels_arg, interpretation, now, users, refresh_tokens, requests, login, ttl, cache, timestamps, got, set_log>>

\* the caller calls calculate_levels once more on the frame it still holds
LevelsAgain ==
    /\ pc = "levels"
    /\ LET r == call_calculate_levels(df)
       IN  /\ T' = r.value
           /\ exc' = IF r.raised THEN r.detail ELSE "none"
    /\ pc' = "levels again"
    /\ UNCHANGED <<df, period, dfw, response, layout, keys, last_close, levels_arg, interpretation, now, users, refresh_tokens, requests, login, ttl, cache, timestamps, got, set_log>>

\* a request names a symbol
PickSymbol ==
    /\ pc = "source"
    /\ keys = <<>>
    /\ \E symbol \in Symbols : keys' = <<symbol>>
    /\ UNCHANGED <<df, period, dfw, T, pc, response, layout, exc, last_close, levels_arg, interpretation, now, users, refresh_tokens, requests, login, ttl, cache, timestamps, got, set_log>>

\* get_upstox_instrument_key applied to the symbol, and once more to its result
InstrumentKey ==
    /\ keys # <<>>
    /\ Len(keys) < 3
    /\ keys' = Append(keys, get_upstox_instrument_key(keys[Len(keys)]))
    /\ UNCHANGED <<df, period, dfw, T, pc, response, layout, exc, last_close, levels_arg, interpretation, now, users, refresh_tokens, requests, login, ttl, cache, timestamps, got, set_log>>

NextKeys == PickSymbol \/ InstrumentKey

SpecKeys == Init /\ [][NextKeys]_vars

NextLevelCalls == SourceRaw \/ LevelsCall \/ LevelsAgain

SpecLevelCalls == Init /\ [][NextLevelCalls]_vars

NextFrames == EmptyFrame \/ SourceFrame \/ ResampleCall

SpecFrames == Init /\ [][NextFrames]_vars

NextResample == SourceAny \/ Resample

NextWeekly == SourceJanWeek \/ Resample

\* GET /stock/{symbol}; an unsupported period only selects daily candles
get_stock_data_request ==
    /\ pc = "source"
    /\ \E dates_ok \in BOOLEAN, source_up \in BOOLEAN :
          LET result == get_stock_data(df, dates_ok, source_up)
          IN  /\ response' = [endpoint |-> "stock", dates_ok |-> dates_ok,
                              source_up |-> source_up,
                              status |-> result.status, detail |-> result.detail]
              /\ dfw' = result.value
    /\ pc' = "responded"
    /\ UNCHANGED <<df, period, T, layout, exc, keys, last_close, levels_arg, interpretation, now, users, refresh_tokens, requests, login, ttl, cache, timestamps, got, set_log>>

\* the bar source holds one more candle: of the next day, or of the third
\* day after the last one
SourceCandles ==
    /\ pc = "source"
    /\ Len(df) < MaxBars
    /\ \E gap \in {1, 3} :
          LET z == IF df = <<>> THEN FirstDay ELSE df[Len(df)].Date + gap
          IN  \E b \in Candles(z) : df' = Append(df, b)
    /\ UNCHANGED <<period, dfw, T, pc, response, layout, exc, keys, last_close, levels_arg, interpretation, now, users, refresh_tokens, requests, login, ttl, cache, timestamps, got, set_log>>

NextPlot == SourceCandles \/ get_technical_analysis_plot

SpecPlot == Init /\ [][NextPlot]_vars

\* the closes and the levels a caller may pass: whole prices up to MaxClose,
\* or None; each key level is absent (0 or None) or at its place in the usual
\* order S6 < S5 < S4 < S3 < PP < R3 < R4 < R5 < R6
Closes == {None} \cup {F(n) : n \in 0..MaxClose}

LevelArgs ==
    {[PP |-> F(6), S5 |-> F(2), R5 |-> F(10),
      S6 |-> s6, S4 |-> s4, S3 |-> s3, R3 |-> r3, R4 |-> r4, R6 |-> r6] :
        s6 \in {None, F(1)}, s4 \in {F(0), F(3)}, s3 \in {F(0), F(5)},
        r3 \in {F(0), F(7)}, r4 \in {None, F(9)}, r6 \in {F(0), F(11)}}

\* a caller holds a last close and the levels of the last row
PickClose ==
    /\ pc = "source"
    /\ last_close' \in Closes
    /\ levels_arg' \in LevelArgs
    /\ pc' = "picked"
    /\ UNCHANGED <<df, period, dfw, T, response, layout, exc, keys, interpretation, now, users, refresh_tokens, requests, login, ttl, cache, timestamps, got, set_log>>

\* interpretation = get_closing_interpretation(last_close, levels)
Interpret ==
    /\ pc = "picked"
    /\ interpretation' = get_closing_interpretation(last_close, levels_arg)
    /\ pc' = "interpreted"
    /\ UNCHANGED <<df, period, dfw, T, response, layout, exc, keys, last_close, levels_arg, now, users, refresh_tokens, requests, login, ttl, cache, timestamps, got, set_log>>

NextInterpretation == PickClose \/ Interpret

SpecInterpretation == Init /\ [][NextInterpretation]_vars

\* a second passes
Tick ==
    /\ now < MaxTime
    /\ now' = now + 1
    /\ UNCHANGED <<df, period, dfw, T, pc, response, layout, exc, keys, last_close, levels_arg, interpretation, users, refresh_tokens, requests, login, ttl, cache, timestamps, got, set_log>>

\* POST /register
register_new_user ==
    /\ Cardinality(users) < MaxUsers
    /\ \E new_user \in Accounts :
          /\ UserRows(new_user.email) = {}
          /\ users' = users \cup {[email |-> new_user.email,
                                   hashed_password |-> get_password_hash(new_user.password)]}
    /\ UNCHANGED <<df, period, dfw, T, pc, response, layout, exc, keys, last_close, levels_arg, interpretation, now, refresh_tokens, requests, login, ttl, cache, timestamps, got, set_log>>

\* POST /access-token
login_access_token ==
    /\ Len(refresh_tokens) < MaxLogins
    /\ \E username \in Emails, password \in Passwords :
          LET result == login_result(username, password)
          IN  /\ login' = [username |-> username, password |-> password,
                           status |-> result.status, detail |-> result.detail]
              /\ refresh_tokens' =
                    IF result.raised THEN refresh_tokens
                    ELSE Append(refresh_tokens, NewRefreshToken(result.value))
    /\ UNCHANGED <<df, period, dfw, T, pc, response, layout, exc, keys, last_close, levels_arg, interpretation, now, users, requests, ttl, cache, timestamps, got, set_log>>

\* POST /refresh-token, lines 127-151: the select and the three checks.  A
\* row found stays locked by the session of the request.  The requests are
\* numbered in the order in which they arrive; the value presented is that of
\* a row of the table or the next one, which no row has.
refresh_token_select(r) ==
    /\ requests[r].pc = "idle"
    /\ \A q \in 1..(r - 1) : requests[q].pc # "idle"
    /\ \E value \in 1..(Len(refresh_tokens) + 1) :
          LET token == SelectForUpdate(r, value)
              failure ==
                  IF token = 0 THEN Raise(404, REFRESH_TOKEN_NOT_FOUND)
                  ELSE IF now > refresh_tokens[token].exp
                  THEN Raise(400, REFRESH_TOKEN_EXPIRED)
                  ELSE IF refresh_tokens[token].used
                  THEN Raise(400, REFRESH_TOKEN_ALREADY_USED)
                  ELSE Return(token)
          IN  requests' = [requests EXCEPT ![r] =
                  [pc |-> IF failure.raised THEN "raised" ELSE "selected",
                   presented |-> value,
                   locked |-> token,
                   status |-> IF failure.raised THEN failure.status ELSE 0,
                   detail |-> IF failure.raised THEN failure.detail ELSE "none"]]
    /\ UNCHANGED <<df, period, dfw, T, pc, response, layout, exc, keys, last_close, levels_arg, interpretation, now, users, refresh_tokens, login, ttl, cache, timestamps, got, set_log>>

\* POST /refresh-token, lines 153-173: the token is marked used, the new one
\* is added, and the commit writes both and releases the row lock
refresh_token_commit(r) ==
    /\ requests[r].pc = "selected"
    /\ LET token == requests[r].locked
       IN  refresh_tokens' =
               Append([refresh_tokens EXCEPT ![token].used = TRUE],
                      NewRefreshToken(refresh_tokens[token].user_id))
    /\ requests' = [requests EXCEPT ![r] =
            [@ EXCEPT !.pc = "done", !.locked = 0, !.status = 200, !.detail = "ok"]]
    /\ UNCHANGED <<df, period, dfw, T, pc, response, layout, exc, keys, last_close, levels_arg, interpretation, now, users, login, ttl, cache, timestamps, got, set_log>>

\* deps.py get_session: the session of a request that raised is closed, which
\* rolls back and releases its row lock
session_close(r) ==
    /\ requests[r].pc = "raised"
    /\ requests' = [requests EXCEPT ![r] = [@ EXCEPT !.pc = "done", !.locked = 0]]
    /\ UNCHANGED <<df, period, dfw, T, pc, response, layout, exc, keys, last_close, levels_arg, interpretation, now, users, refresh_tokens, login, ttl, cache, timestamps, got, set_log>>

refresh_token == \E r \in DOMAIN requests :
    \/ refresh_token_select(r)
    \/ refresh_token_commit(r)
    \/ session_close(r)

NextAuth ==
    \/ Tick
    \/ register_new_user
    \/ login_access_token
    \/ refresh_token

SpecAuth == Init /\ [][NextAuth]_vars

\* the wall clock is read at another value: later, or earlier after it was set back
ClockAdjust ==
    /\ \E t \in 0..MaxTime :
          /\ t # now
          /\ now' = t
    /\ UNCHANGED <<df, period, dfw, T, pc, response, layout, exc, keys, last_close, levels_arg, interpretation, users, refresh_tokens, requests, login, ttl, cache, timestamps, got, set_log>>

\* SimpleCache.get(key), lines 11-18
get(key) ==
    /\ got.n < MaxGets
    /\ exc = "none"
    /\ IF key \notin DOMAIN cache
       THEN /\ got' = [n |-> got.n + 1, key |-> key, value |-> None]
            /\ UNCHANGED <<cache, timestamps, exc>>
       ELSE IF key \notin DOMAIN timestamps
       THEN /\ exc' = "KeyError"
            /\ UNCHANGED <<cache, timestamps, got>>
       ELSE IF within_ttl(timestamps[key])
       THEN /\ got' = [n |-> got.n + 1, key |-> key, value |-> cache[key]]
            /\ UNCHANGED <<cache, timestamps, exc>>
       ELSE /\ expire(key)
            /\ got' = [n |-> got.n + 1, key |-> key, value |-> None]
            /\ UNCHANGED exc
    /\ set_log' = [set_log EXCEPT ![key].expired =
                      @ \/ (set_log[key].at >= 0 /\ now - set_log[key].at >= ttl)]
    /\ UNCHANGED <<df, period, dfw, T, pc, response, layout, keys, last_close, levels_arg, interpretation, now, users, refresh_tokens, requests, login, ttl>>

\* SimpleCache.set(key, value), lines 20-22
set(key, value) ==
    /\ exc = "none"
    /\ cache' = SetItem(cache, key, value)
    /\ timestamps' = SetItem(timestamps, key, now)
    /\ set_log' = [set_log EXCEPT ![key] = [at |-> now, value |-> value, expired |-> FALSE]]
    /\ UNCHANGED <<df, period, dfw, T, pc, response, layout, exc, keys, last_close, levels_arg, interpretation, now, users, refresh_tokens, requests, login, ttl, got>>

NextCache ==
    \/ ClockAdjust
    \/ \E key \in CacheKeys : get(key)
    \/ \E key \in CacheKeys, value \in CacheValues : set(key, value)

SpecCache == InitCache /\ [][NextCache]_vars

NextEndpoint ==
    \/ SourceTradingDays
    \/ get_stock_data_request
    \/ get_technical_analysis
    \/ get_technical_analysis_plot

SpecWeekly == Init /\ [][NextWeekly]_vars

SpecEndpoint == Init /\ [][NextEndpoint]_vars

NextLevels == SourceDaily \/ Analyse

SpecLevels == Init /\ [][NextLevels]_vars

SpecResample == Init /\ [][NextResample]_vars

---------------------------------------------------------------------------
(* Claims about data_resampling, checked under SpecResample *)

Resampled == pc = "resampled"

\* z is the last day of a period of code p
IsPeriodEnd(z, p) ==
    LET n == civil_from_days(z + 1)
    IN  CASE p = "D" -> TRUE
          [] p = "W" -> Weekday(z) = 6
          [] p = "M" -> n.d = 1
          [] p = "Q" -> n.d = 1 /\ n.m \in {1, 4, 7, 10}
          [] p = "Y" -> n.d = 1 /\ n.m = 1

\* day z lies in the closed-right window that ends at the period end e
InWindowEnding(z, e, p) == z <= e /\ \A w \in z..(e - 1) : ~IsPeriodEnd(w, p)

\* the positions of the input bars that fall into the window ending at e
BarsIn(e) == {i \in DOMAIN df : InWindowEnding(df[i].Date, e, period)}

\* position i comes chronologically before position j (input order breaks ties)
Before(i, j) == df[i].Date < df[j].Date \/ (df[i].Date = df[j].Date /\ i <= j)

ChronoFirst(S) == CHOOSE i \in S : \A j \in S : Before(i, j)
ChronoLast(S) == CHOOSE i \in S : \A j \in S : Before(j, i)

IsMaxOf(v, vals) == v \in vals /\ \A w \in vals : ~isna(w) => (~isna(v) /\ RLe(w, v))
IsMinOf(v, vals) == v \in vals /\ \A w \in vals : ~isna(w) => (~isna(v) /\ RLe(v, w))

\* C5: buckets with zero input bars are omitted: every output row of
\* data_resampling has at least one input bar in its window.
C5_NoEmptyBuckets ==
    Resampled => \A k \in DOMAIN dfw : BarsIn(dfw[k].Date) # {}

\* C6: in every output row, open is the open of the chronologically first bar
\* of the bucket, close the close of the chronologically last one, high the
\* maximum high, low the minimum low, and symbol the symbol of a bar of the bucket.
C6_Aggregates ==
    Resampled =>
        \A k \in DOMAIN dfw :
            LET S == BarsIn(dfw[k].Date)
            IN  /\ S # {}
                /\ dfw[k].Open = df[ChronoFirst(S)].Open
                /\ dfw[k].Close = df[ChronoLast(S)].Close
                /\ IsMaxOf(dfw[k].High, {df[i].High : i \in S})
                /\ IsMinOf(dfw[k].Low, {df[i].Low : i \in S})
                /\ dfw[k].Symbol \in {df[i].Symbol : i \in S}

\* C7: windows are closed on the right and labelled on the right: every label
\* is the end date of its period, every row aggregates exactly the bars of the
\* window that ends at its label, and a bar dated on a period boundary has a
\* row labelled with its own date (it is in the bucket ending there).
C7_ClosedRightLabelRight ==
    Resampled =>
        /\ \A k \in DOMAIN dfw :
              /\ IsPeriodEnd(dfw[k].Date, period)
              /\ dfw[k] = logic(dfw[k].Date,
                                SelectSeq(sort_index(df),
                                          LAMBDA r : InWindowEnding(r.Date, dfw[k].Date, period)))
        /\ \A i \in DOMAIN df :
              IsPeriodEnd(df[i].Date, period) =>
                  \E k \in DOMAIN dfw :
                      /\ dfw[k].Date = df[i].Date
                      /\ ~isna(df[i].High) => (~isna(dfw[k].High) /\ RLe(df[i].High, dfw[k].High))

\* a monthly resampling of a bar dated on the month end 2024-12-31 and a bar
\* dated on the first day of the next month
C7_Witness ==
    /\ Resampled
    /\ period = "M"
    /\ \E i, j \in DOMAIN df :
          /\ df[i].Date = days_from_civil(2024, 12, 31)
          /\ df[j].Date = days_from_civil(2025, 1, 1)
          /\ ~isna(df[i].High)
    /\ Len(dfw) = 2

\* C8: the output is in strictly ascending order of bucket label, hence
\* without duplicate labels.
C8_AscendingUnique ==
    Resampled => \A j, k \in DOMAIN dfw : j < k => dfw[j].Date < dfw[k].Date

\* an input that is not in date order (a Monday bar, then the bar of the
\* Saturday before it), resampled to weekly: two rows, the earlier week first
C8_Witness ==
    /\ Resampled
    /\ period = "W"
    /\ Len(df) = 2
    /\ df[1].Date > df[2].Date
    /\ Len(dfw) = 2
    /\ dfw[1].Date = df[2].Date + 1

---------------------------------------------------------------------------
(* Claims about calculate_levels, checked under SpecLevels *)

Levelled == pc = "levels"

AllMissing(r) == \A l \in Range(levels) : isna(r[l])
AllDefined(r) == \A l \in Range(levels) : ~isna(r[l])

\* the bar has H > 0, L > 0 and C > 0
Positive(b) ==
    /\ ~isna(b.High) /\ b.High[1] > 0
    /\ ~isna(b.Low) /\ b.Low[1] > 0
    /\ ~isna(b.Close) /\ b.Close[1] > 0

\* the levels as the specification writes them, from a bar with positive H, L, C
StatedLevels(b) ==
    LET H == b.High
        L == b.Low
        C == b.Close
        quarter == RMul(RSub(H, L), Frac(11, 40))
        half == RMul(RSub(H, L), Frac(11, 20))
        R6 == Frac(H[1] * C[1], L[1])
    IN  [PP |-> Frac(H[1] + L[1] + C[1], 3),
         R3 |-> RAdd(C, quarter),
         R4 |-> RAdd(C, half),
         R5 |-> RAdd(RAdd(C, half), RMul(Frac(1168, 1000), RSub(half, quarter))),
         R6 |-> R6,
         S3 |-> RSub(C, quarter),
         S4 |-> RSub(C, half),
         S5 |-> RSub(RSub(C, half), RMul(Frac(1168, 1000), RSub(half, quarter))),
         S6 |-> RSub(F(2 * C[1]), R6)]

\* a positive float in thousandths, rounded half up
Round3(v) == (2000 * v[1] + v[2]) \div (2 * v[2])

\* C1: calculate_levels returns one entry per input bar, in the same order
\* and with the same labels, and entry 0 has all nine levels missing.
C1_SameLengthFirstMissing ==
    Levelled =>
        /\ Len(T) = Len(dfw)
        /\ \A i \in DOMAIN T : T[i].Date = dfw[i].Date
        /\ AllMissing(T[1])

\* three bars, the first of them with positive H, L, C, so that the loop has
\* computed levels from it
C1_Witness ==
    /\ Levelled
    /\ Len(T) = 3
    /\ Positive(dfw[1])
    /\ AllDefined(T[2])

\* C2: for i > 0 whose previous bar has H, L, C > 0, bar i carries exactly the
\* nine stated values computed from bar i-1; for the previous bar
\* (O=10,H=12,L=8,C=11) they are 10.333, 12.1, 13.2, 14.485, 16.5, 9.9, 8.8,
\* 7.515 and 5.5 to three decimals.
C2_StatedFormulas ==
    Levelled =>
        \A i \in DOMAIN T :
            (i > 1 /\ Positive(dfw[i - 1])) =>
                /\ LevelsOf(T[i]) = StatedLevels(dfw[i - 1])
                /\ (dfw[i - 1].High = F(12) /\ dfw[i - 1].Low = F(8) /\ dfw[i - 1].Close = F(11)) =>
                      /\ Round3(T[i].PP) = 10333
                      /\ Round3(T[i].R3) = 12100
                      /\ Round3(T[i].R4) = 13200
                      /\ Round3(T[i].R5) = 14485
                      /\ Round3(T[i].R6) = 16500
                      /\ Round3(T[i].S3) = 9900
                      /\ Round3(T[i].S4) = 8800
                      /\ Round3(T[i].S5) = 7515
                      /\ Round3(T[i].S6) = 5500

\* the bar of the worked example followed by another bar, which carries R6 = 16.5
C2_Witness ==
    /\ Levelled
    /\ Len(T) >= 2
    /\ dfw[1].Open = F(10) /\ dfw[1].High = F(12)
    /\ dfw[1].Low = F(8) /\ dfw[1].Close = F(11)
    /\ T[2].R6 = Frac(33, 2)

\* a missing price counts as 0 (line 62)
NonPositive(v) == isna(v) \/ v[1] <= 0

Degenerate(b) == NonPositive(b.High) \/ NonPositive(b.Low) \/ NonPositive(b.Close)

\* C3: if bar i-1 has L <= 0, H <= 0 or C <= 0, all nine levels at position i
\* are missing; the call still returns the whole table, and every position
\* whose previous bar is positive has all nine levels.
C3_DegenerateMissing ==
    Levelled =>
        /\ Len(T) = Len(dfw)
        /\ \A i \in DOMAIN T :
              /\ (i > 1 /\ Degenerate(dfw[i - 1])) => AllMissing(T[i])
              /\ (i > 1 /\ Positive(dfw[i - 1])) => AllDefined(T[i])

\* a bar with a zero low, then a positive bar, then a third bar: position 1
\* has no levels and position 2 has them
C3_Witness ==
    /\ Levelled
    /\ Len(T) = 3
    /\ dfw[1].Low = F(0) /\ dfw[1].High = F(12) /\ dfw[1].Close = F(11)
    /\ Positive(dfw[2])
    /\ AllMissing(T[2])
    /\ AllDefined(T[3])

\* C4: the levels of bar i depend only on bar i-1: they are the levels the
\* calculator attaches to any bar that follows bar i-1 in any series, here the
\* series of bar i-1 and bar B alone.  Every series of SpecLevels satisfies
\* this, so two series that agree on bar i-1 have the same levels at i.
C4_OnlyPreviousBar ==
    Levelled =>
        \A i \in DOMAIN T :
            i > 1 =>
                LevelsOf(T[i]) =
                    LevelsOf(calculate_levels(<<dfw[i - 1], BarB(dfw[i - 1].Date + 1)>>)[2])

\* three bars: the second positive, the first and the third not, so that the
\* levels of the third bar come from a bar unlike itself and unlike the first
C4_Witness ==
    /\ Levelled
    /\ Len(T) = 3
    /\ Degenerate(dfw[1])
    /\ Positive(dfw[2])
    /\ Degenerate(dfw[3])
    /\ AllDefined(T[3])

---------------------------------------------------------------------------
(* Claim about one week of daily bars, checked under SpecWeekly *)

\* df holds the seven daily bars Jan-01..Jan-07 of one year
JanWeek ==
    /\ Len(df) = 7
    /\ \A i \in 1..7 :
          df[i].Date = days_from_civil(civil_from_days(df[1].Date).y, 1, i)

\* row r is the aggregate of the input bars from..to (in date order)
IsBucketOf(r, from, to) ==
    /\ r.Open = df[from].Open
    /\ r.Close = df[to].Close
    /\ IsMaxOf(r.High, {df[i].High : i \in from..to})
    /\ IsMinOf(r.Low, {df[i].Low : i \in from..to})

\* C9 as stated: the seven daily bars Jan-01..Jan-07 of any year resample to
\* exactly one weekly bucket, labelled with a week-ending date, with the open
\* of Jan-01, the close of Jan-07, the maximum high and the minimum low.
C9_OneWeeklyBucket ==
    (Resampled /\ period = "W" /\ JanWeek) =>
        /\ Len(dfw) = 1
        /\ IsPeriodEnd(dfw[1].Date, "W")
        /\ IsBucketOf(dfw[1], 1, 7)

\* C9 as amended: when Jan-01 is a Monday the seven bars give one bucket,
\* labelled Jan-07 (the Sunday), with the stated aggregates; in any other year
\* they give two buckets, split after the first Sunday of the year.
C9_OneBucketWhenJan1IsMonday ==
    (Resampled /\ period = "W" /\ JanWeek) =>
        LET k == 7 - Weekday(df[1].Date)
        IN  IF k = 7
            THEN /\ Len(dfw) = 1
                 /\ dfw[1].Date = df[7].Date
                 /\ IsBucketOf(dfw[1], 1, 7)
            ELSE /\ Len(dfw) = 2
                 /\ dfw[1].Date = df[k].Date
                 /\ IsBucketOf(dfw[1], 1, k)
                 /\ dfw[2].Date = df[k].Date + 7
                 /\ IsBucketOf(dfw[2], k + 1, 7)

\* the week of Monday 2024-01-01, whose first and last bars differ
C9_Witness ==
    /\ Resampled /\ period = "W" /\ JanWeek
    /\ df[1].Date = days_from_civil(2024, 1, 1)
    /\ df[1].Open # df[7].Open
    /\ Len(dfw) = 1

\* the values are in ascending order (equal neighbours allowed)
RECURSIVE Ascending(_)
Ascending(vals) ==
    Len(vals) < 2 \/ (RLe(vals[1], vals[2]) /\ Ascending(Tail(vals)))

\* C23: whenever levels are defined at position i (previous bar with H, L,
\* C > 0), support and resistance are mirror images around the previous close:
\* R3+S3 = R4+S4 = R5+S5 = R6+S6 = 2*C; and when additionally H >= L they
\* are ordered S5 <= S4 <= S3 <= C <= R3 <= R4 <= R5 and S6 <= C <= R6.
C23_MirrorAndOrder ==
    Levelled =>
        \A i \in 2..Len(T) :
            (Positive(T[i - 1]) /\ AllDefined(T[i])) =>
                LET r == T[i]
                    C == T[i - 1].Close
                IN  /\ \A pair \in {<<"R3", "S3">>, <<"R4", "S4">>, <<"R5", "S5">>, <<"R6", "S6">>} :
                          RAdd(r[pair[1]], r[pair[2]]) = RMul(F(2), C)
                    /\ RLe(T[i - 1].Low, T[i - 1].High) =>
                          /\ Ascending(<<r.S5, r.S4, r.S3, C, r.R3, r.R4, r.R5>>)
                          /\ Ascending(<<r.S6, C, r.R6>>)

\* the levels after a bar whose high is above its low: the order is strict
C23_Witness ==
    /\ Levelled
    /\ Len(T) >= 2
    /\ Positive(T[1])
    /\ RLt(T[1].Low, T[1].High)
    /\ AllDefined(T[2])
    /\ RLt(T[2].S5, T[2].S4) /\ RLt(T[2].R4, T[2].R5)
    /\ RLt(T[2].S6, T[1].Close) /\ RLt(T[1].Close, T[2].R6)

---------------------------------------------------------------------------
(* Claim about the endpoints, checked under SpecEndpoint *)

Responded == pc = "responded"

\* C10: a request to the technical-analysis or plot endpoint whose period is
\* not one of D, W, M, Q, Y is answered with HTTP 400, never with a 5xx status
\* (stated for requests with well-formed dates, for which the bar source
\* answers with at least one bar, so that nothing but the period is wrong).
C10_InvalidPeriodIs400 ==
    (/\ Responded
     /\ period \notin ValidPeriods
     /\ response.dates_ok /\ response.source_up /\ df # <<>>) => response.status = 400

\* C20: when the bar source answers with no bars, the stock-data, the
\* technical-analysis and the plot endpoint respond with HTTP 404 and the
\* detail 'No data found ...' (stated for requests with well-formed dates).
C20_NoDataIs404 ==
    (Responded /\ df = <<>> /\ response.dates_ok /\ response.source_up) =>
        (response.status = 404 /\ response.detail = "No data found")

\* the entry of the analysis that corresponds to the input bar b
EntryOf(b) == CHOOSE i \in 1..Len(T) : T[i].Date = b.Date

\* C21: in the pipeline data_resampling(period D) followed by calculate_levels,
\* for input daily bars that all have H > 0, L > 0 and C > 0, every output
\* entry that corresponds to an input bar other than the first has all nine
\* levels defined, also when the input dates have calendar gaps.
C21_LevelsAcrossGaps ==
    (/\ Responded
     /\ response.endpoint = "technical" /\ response.status = 200
     /\ period = "D"
     /\ \A i \in 1..Len(df) : Positive(df[i])) =>
        \A i \in 2..Len(df) :
            /\ \E j \in 1..Len(T) : T[j].Date = df[i].Date
            /\ AllDefined(T[EntryOf(df[i])])

---------------------------------------------------------------------------
(* Claim about the plot pipeline, checked under SpecPlot *)

\* the plot endpoint has answered with a plot
Plotted == Responded /\ response.endpoint = "plot" /\ response.status = 200

\* what the main loop of calculate_levels (lines 71-99) gives the rows, after
\* the post-pass of lines 134-140 and without any of the three fallbacks
MainLoopLevels(rows) == Finish(LevelLoop(InitLevels(rows), 1))

---------------------------------------------------------------------------
(* Claim about get_closing_interpretation, checked under SpecInterpretation *)

Interpreted == pc = "interpreted"

\* the argument is a number above 0
Available(v) == v # None /\ RPos(v)

\* a < b < c
Between(a, b, c) == RLt(a, b) /\ RLt(b, c)

\* C25: get_closing_interpretation returns the detailed scenario texts when
\* the key levels are available: for last_close > 0 and S3, S4, R3, R4 all > 0
\* it returns 'BULLISH SCENARIO 1' when S4 < last_close < S3, 'BEARISH SCENARIO 2'
\* when R3 < last_close < R4, 'BEARISH SCENARIO 1' when S6 < last_close < S4
\* (S6 > 0) and 'BULLISH SCENARIO 2' when R4 < last_close < R6 (R6 > 0).
C25_DetailedScenarios ==
    (/\ Interpreted
     /\ Available(last_close)
     /\ \A key \in {"S3", "S4", "R3", "R4"} : Available(levels_arg[key])) =>
        LET l == levels_arg
        IN  /\ Between(l.S4, last_close, l.S3) => interpretation = "BULLISH SCENARIO 1"
            /\ Between(l.R3, last_close, l.R4) => interpretation = "BEARISH SCENARIO 2"
            /\ (Available(l.S6) /\ Between(l.S6, last_close, l.S4)) =>
                  interpretation = "BEARISH SCENARIO 1"
            /\ (Available(l.R6) /\ Between(l.R4, last_close, l.R6)) =>
                  interpretation = "BULLISH SCENARIO 2"

---------------------------------------------------------------------------
(* Claims about auth.py, checked under SpecAuth *)

\* the answers a refresh-token request may get when it is turned down
RefreshFailures ==
    {<<400, REFRESH_TOKEN_ALREADY_USED>>, <<400, REFRESH_TOKEN_EXPIRED>>,
     <<404, REFRESH_TOKEN_NOT_FOUND>>}

\* C26: a refresh token is accepted at most once: over any sequence or
\* interleaving of refresh-token requests presenting the same token value, at
\* most one request succeeds and issues a new access/refresh pair; every other
\* request fails (400 already used or expired, or 404 not found) and issues
\* nothing.  Stated for the step in which a request gets its answer.
C26_AcceptedAtMostOnce ==
    [][\A r \in DOMAIN requests :
          (requests[r].status = 0 /\ requests'[r].status # 0) =>
              IF requests'[r].status = 200
              THEN /\ \A q \in (DOMAIN requests) \ {r} :
                         ~(/\ requests'[q].status = 200
                           /\ requests'[q].presented = requests'[r].presented)
                   /\ Len(refresh_tokens') = Len(refresh_tokens) + 1
                   /\ refresh_tokens'[requests'[r].presented].used
              ELSE /\ <<requests'[r].status, requests'[r].detail>> \in RefreshFailures
                   /\ refresh_tokens' = refresh_tokens]_vars

\* two requests presented the same token while the first held its row: the
\* first was accepted, the second found nothing
C26_Witness ==
    /\ requests[1].status = 200
    /\ requests[2].status = 404
    /\ requests[2].presented = requests[1].presented
    /\ Len(refresh_tokens) = 2

\* C27: the login endpoint does not reveal whether an email is registered: a
\* login with an unknown email and a login with a known email and a wrong
\* password receive the same response (HTTP 400 with the PASSWORD_INVALID
\* detail), and neither creates a refresh token.
C27_LoginDoesNotRevealEmail ==
    [][login' # login =>
          LET unknown == UserRows(login'.username) = {}
              wrong == \E u \in UserRows(login'.username) :
                           u.hashed_password # get_password_hash(login'.password)
          IN  (unknown \/ wrong) =>
                  /\ login'.status = 400
                  /\ login'.detail = PASSWORD_INVALID
                  /\ refresh_tokens' = refresh_tokens]_vars

\* a login with an email that nobody registered, while another is registered
C27_Witness ==
    /\ login.status = 400
    /\ login.username \in Emails
    /\ UserRows(login.username) = {}
    /\ users # {}
    /\ refresh_tokens = <<>>

---------------------------------------------------------------------------
(* Claims about SimpleCache, checked under SpecCache *)

\* the most recent set of the key happened less than ttl seconds before now,
\* and no get has found its entry expired since
Fresh(key) ==
    /\ set_log[key].at >= 0
    /\ now - set_log[key].at < ttl
    /\ ~set_log[key].expired

\* C28: SimpleCache.get(key) returns a stored value only if the most recent
\* set(key, ...) happened less than ttl seconds earlier; otherwise it returns
\* None, and an entry found expired is removed by that get so that it is
\* never returned by a later get without a new set.  Stated for every step
\* in which a get returns, with the times as time.time() gave them.
C28_GetWithinTtl ==
    [][got'.n # got.n =>
          LET key == got'.key
          IN  /\ got'.value = IF Fresh(key) THEN set_log[key].value ELSE None
              /\ (set_log[key].at >= 0 /\ now - set_log[key].at >= ttl) =>
                    (key \notin DOMAIN cache' /\ key \notin DOMAIN timestamps')]_vars

\* a get found the entry expired, the clock was set back to less than ttl
\* after the set, and the last get of the key returned None
C28_Witness ==
    /\ got.n >= 2
    /\ got.key = "plot_LT_D"
    /\ got.value = None
    /\ set_log["plot_LT_D"].expired
    /\ now - set_log["plot_LT_D"].at < ttl
    /\ "plot_LT_D" \notin DOMAIN cache

\* C29: after any sequence of SimpleCache.get and SimpleCache.set calls, the
\* value map and the timestamp map hold exactly the same set of keys, so get
\* never reads a timestamp for a key that has none.
C29_SameKeys ==
    /\ DOMAIN cache = DOMAIN timestamps
    /\ exc # "KeyError"

\* one key was set and found expired, the other is still held
C29_Witness ==
    /\ set_log["plot_LT_W"].expired
    /\ DOMAIN cache = {"plot_LT_D"}
    /\ DOMAIN timestamps = {"plot_LT_D"}
    /\ got.key = "plot_LT_W"

---------------------------------------------------------------------------
(* Claims about calls of data_resampling, checked under SpecFrames *)

\* a call of data_resampling has returned or raised
Called == pc \in {"resampled", "raised"}

\* C11: data_resampling fails with an invalid-period error, and produces no
\* output series, for every period argument that is not one of D, W, M, Q, Y.
C11_InvalidPeriodFails ==
    (Called /\ period \notin ValidPeriods) => (pc = "raised" /\ dfw = <<>>)

C15_CallerFrameUnchanged ==
    [][(pc = "source" /\ pc' # "source") => df' = df]_vars

\* C17: on a frame without timestamps the call does not fail, and its output,
\* bucket labels included, is the output of the same call made on any other
\* day (stated for the five valid period codes).
C17_SameOutputAtAnyMoment ==
    [][(pc = "source" /\ pc' # "source" /\ layout = "NoDate" /\ period' \in ValidPeriods) =>
          /\ exc' = "none"
          /\ \A t \in Window : dfw' = call_data_resampling(df, layout, period', t).value]_vars

---------------------------------------------------------------------------
(* Claims about calls of calculate_levels, checked under SpecLevelCalls *)

\* the first call of calculate_levels has returned or raised
LevelsCalled == pc \in {"levels", "raised"}

\* C12: calculate_levels of a series without bars (with the usual columns)
\* returns a zero-length output and raises nothing.
C12_EmptyGivesEmpty ==
    (LevelsCalled /\ dfw = <<>>) => (pc = "levels" /\ exc = "none" /\ T = <<>>)

IsNumber(v) == v \notin {NaN, None, NotANumber}
IsFinite(v) == IsNumber(v) /\ v[2] # 0

\* the bar with every missing or non-numeric price taken as 0
Zeroed(b) ==
    [b EXCEPT !.Open = IF IsNumber(@) THEN @ ELSE F(0),
              !.High = IF IsNumber(@) THEN @ ELSE F(0),
              !.Low = IF IsNumber(@) THEN @ ELSE F(0),
              !.Close = IF IsNumber(@) THEN @ ELSE F(0)]

FiniteBar(b) == \A c \in {"Open", "High", "Low", "Close"} : IsFinite(Zeroed(b)[c])

C18_NoInfiniteLevel ==
    Levelled => \A i \in DOMAIN T : \A l \in Range(levels) : T[i][l] = None \/ IsFinite(T[i][l])

\* a bar with an infinite low followed by another bar: R6 = (H / inf) * C = 0
\* and S6 = 2C are finite, the seven other levels were infinite or NaN
C18_Witness ==
    /\ Levelled
    /\ Len(T) = 2
    /\ dfw[1].Low = Inf
    /\ T[2].R6 = F(0)
    /\ T[2].S6 = F(22)
    /\ T[2].PP = None
    /\ T[2].R5 = None

\* the entry has all nine levels or none of them
AllOrNothing(r) == AllMissing(r) \/ AllDefined(r)

\* C22 as stated: at every position of the output of calculate_levels the nine
\* levels are all-or-nothing: either all nine are defined or all nine are missing.
C22_AllOrNothing ==
    Levelled => \A i \in DOMAIN T : AllOrNothing(T[i])

\* C22, amended: the nine levels are all-or-nothing at every position whose
\* previous bar has finite prices (and at the first position); an entry with
\* some levels only follows a bar with an infinite low, and then exactly
\* R6 = 0 and S6 = 2C are defined.
C22_AllOrNothingAfterFiniteBar ==
    Levelled =>
        \A i \in DOMAIN T :
            /\ (i = 1 \/ FiniteBar(dfw[i - 1])) => AllOrNothing(T[i])
            /\ ~AllOrNothing(T[i]) =>
                  /\ dfw[i - 1].Low = Inf
                  /\ {l \in Range(levels) : ~isna(T[i][l])} = {"R6", "S6"}
                  /\ T[i].R6 = F(0)
                  /\ T[i].S6 = RMul(F(2), T[i - 1].Close)

\* after a bar with an infinite low the entry has two of the nine levels
C22_Witness ==
    /\ Levelled
    /\ Len(T) = 2
    /\ ~FiniteBar(dfw[1])
    /\ ~AllOrNothing(T[2])
    /\ T[2].S3 = None
    /\ ~isna(T[2].S6)

---------------------------------------------------------------------------
(* Claim about get_upstox_instrument_key, checked under SpecKeys *)

KnownSymbols == DOMAIN index_mapping \cup DOMAIN instrument_key_map

\* C19: get_upstox_instrument_key returns a symbol that contains '|'
\* unchanged, the mapped key for a known symbol (LT -> NSE_EQ|INE018A01030)
\* and NSE_EQ|<symbol> otherwise; its result always contains '|', and
\* applying it to its result gives the result again.
C19_InstrumentKey ==
    /\ Len(keys) >= 2 =>
          LET symbol == keys[1]
              key    == keys[2]
          IN  /\ "|" \in Range(symbol) => key = symbol
              /\ symbol = <<"L", "T">> =>
                    key = <<"N", "S", "E", "_", "E", "Q", "|", "I", "N", "E", "0", "1", "8", "A", "0", "1", "0", "3", "0">>
              /\ symbol \in DOMAIN index_mapping => key = index_mapping[symbol]
              /\ symbol \in DOMAIN instrument_key_map => key = instrument_key_map[symbol]
              /\ (symbol \notin KnownSymbols /\ "|" \notin Range(symbol)) =>
                    /\ Len(key) = Len(symbol) + 7
                    /\ SubSeq(key, 1, 7) = <<"N", "S", "E", "_", "E", "Q", "|">>
                    /\ SubSeq(key, 8, Len(key)) = symbol
              /\ "|" \in Range(key)
    /\ Len(keys) = 3 => keys[3] = keys[2]

\* the symbol of the test, LT, its key, and the key of its key
C19_Witness ==
    /\ Len(keys) = 3
    /\ keys[1] = <<"L", "T">>
    /\ keys[2] = <<"N", "S", "E", "_", "E", "Q", "|", "I", "N", "E", "0", "1", "8", "A", "0", "1", "0", "3", "0">>
    /\ keys[3] = keys[2]

===========================================================================
